---- MODULE Spec2Model ----
(***************************************************************************)
(* Model of the switching and membership engine of src/src/ethcloud.rs:    *)
(* PeerList, MacTable and EthCloud (send_msg, connect, housekeep,          *)
(* handle_ethernet_frame, handle_net_message, run).                        *)
(*                                                                         *)
(* Time is counted in seconds.  Every handler reads the clock once.        *)
(* A HashMap iteration (PeerList::as_vec) has no defined order: a loop over *)
(* a snapshot is modelled by every order of its elements.                  *)
(***************************************************************************)
EXTENDS Integers, Sequences, FiniteSets, TLC

\* ------------------------------------------------------------------ bounds
MaxTime == 3            \* the clock stops advancing here
PeerTimeout == 2        \* peer_timeout, in seconds
MacTimeout == 1         \* mac_timeout, in seconds
MaxEnv == 2             \* datagrams sent by hosts that are not modelled
MaxNet == 1             \* datagrams in flight

\* --------------------------------------------------------- program constants
OneSecond == 1          \* Duration::seconds(1) of the housekeeping guard
EpollTimeout == 1       \* epoll::wait(.., 1000): 1000 ms
LocalToken == 1         \* the token every node of the cloud is started with

\* ------------------------------------------------------------------ values
Nodes == {"A", "B"}                 \* addresses of hosts running EthCloud
Addrs == Nodes \cup {"C"}           \* every socket address
Macs == {"aa", "bb"}
Vlans == {0, 10}
Tokens == {0, LocalToken}
None == "None"

MacTableKey == [mac : Macs, vlan : Vlans]
\* The frames of the local hosts: two hosts on vlan 0, one of them on vlan 10 too
Frames == {f \in [src : Macs, dst : Macs, vlan : Vlans] :
                f.src # f.dst /\ (f.vlan = 0 \/ f.src = "aa")}
NoFrame == [src |-> "-", dst |-> "-", vlan |-> 0]

\* udpmessage::Message, plus a datagram that does not decode
Message(kind, frame, list) == [kind |-> kind, frame |-> frame, list |-> list]
FrameMsg(f) == Message("Frame", f, {})
PeersMsg(l) == Message("Peers", NoFrame, l)
GetPeersMsg == Message("GetPeers", NoFrame, {})
CloseMsg == Message("Close", NoFrame, {})
Garbage == Message("Garbage", NoFrame, {})
NoMsg == Message("-", NoFrame, {})
Messages == {FrameMsg(f) : f \in Frames} \cup {PeersMsg(l) : l \in SUBSET Addrs}
              \cup {GetPeersMsg, CloseMsg}

\* One message of each kind, for the datagrams that carry another token
WrongTokenMessages ==
    {FrameMsg([src |-> "aa", dst |-> "bb", vlan |-> 0]), PeersMsg({"C"}), GetPeersMsg, CloseMsg}

Datagram(src, dst, token, msg) == [src |-> src, dst |-> dst, token |-> token, msg |-> msg]

\* udpmessage::decode: a parse error, or the token and the message
decode(d) == IF d.msg.kind = "Garbage" THEN "ParseError" ELSE "Ok"

VARIABLES
    now,            \* SteadyTime::now()
    peers,          \* peers[n]: PeerList.peers of node n, address -> deadline
    mactable,       \* mactable[n]: MacTable.table of node n, key -> value
    next_peerlist,  \* next_peerlist[n]
    last_housekeep, \* last_housekeep[n]
    pc,             \* pc[n]: where node n is in main / run()
    events,         \* events[n]: the tags epoll::wait reported, not yet handled
    net,            \* datagrams sent and not yet received
    connected,      \* the connect() calls made before run()
    budget,         \* the datagrams hosts that are not modelled may still send
    gossiped,       \* gossiped[n]: time of the last housekeep() that sent Peers,
                    \* -1 once update_freq has passed since
    last            \* the last handler that ran: its input and what it did

vars == <<now, peers, mactable, next_peerlist, last_housekeep, pc, events, net,
          connected, budget, gossiped, last>>

\* ------------------------------------------------------------------ PeerList
Empty == [x \in {} |-> 0]

PeerList_new == Empty

\* timeout that also evicts the entry whose deadline is now
PeerList_timeout_inclusive(pl, t) ==
    [a \in {x \in DOMAIN pl : ~(pl[x] <= t)} |-> pl[a]]

\* timeout that measures the deadlines against now + timeout
PeerList_timeout_hasty(pl, t) ==
    [a \in {x \in DOMAIN pl : ~(pl[x] < t + PeerTimeout)} |-> pl[a]]

PeerList_timeout(pl, t) ==
    [a \in {x \in DOMAIN pl : ~(pl[x] < t)} |-> pl[a]]

PeerList_contains(pl, addr) == addr \in DOMAIN pl

PeerList_add(pl, addr, t) ==
    [a \in DOMAIN pl \cup {addr} |-> IF a = addr THEN t + PeerTimeout ELSE pl[a]]

PeerList_as_vec(pl) == DOMAIN pl

\* remove that leaves the entry in place
PeerList_remove_keep(pl, addr) == pl

PeerList_remove(pl, addr) == [a \in DOMAIN pl \ {addr} |-> pl[a]]

\* ------------------------------------------------------------------ MacTable
MacTableValue(addr, t) == [address |-> addr, timeout |-> t]

MacTable_new == Empty

\* timeout that deletes nothing
MacTable_timeout_never(mt, t) == mt

MacTable_timeout(mt, t) ==
    [k \in {x \in DOMAIN mt : ~(mt[x].timeout < t)} |-> mt[k]]

\* learn that keeps the mapping of a key it already knows
MacTable_learn_keep(mt, mac, vlan, addr, t) ==
    LET key == [mac |-> mac, vlan |-> vlan]
    IN  [k \in DOMAIN mt \cup {key} |->
            IF k \in DOMAIN mt THEN mt[k] ELSE MacTableValue(addr, t + MacTimeout)]

MacTable_learn(mt, mac, vlan, addr, t) ==
    LET key == [mac |-> mac, vlan |-> vlan]
    IN  [k \in DOMAIN mt \cup {key} |->
            IF k = key THEN MacTableValue(addr, t + MacTimeout) ELSE mt[k]]

\* lookup that does not return an entry whose deadline has passed
MacTable_lookup_unexpired(mt, mac, vlan) ==
    LET key == [mac |-> mac, vlan |-> vlan]
    IN  IF key \in DOMAIN mt /\ ~(mt[key].timeout < now) THEN mt[key].address ELSE None

MacTable_lookup(mt, mac, vlan) ==
    LET key == [mac |-> mac, vlan |-> vlan]
    IN  IF key \in DOMAIN mt THEN mt[key].address ELSE None

\* ------------------------------------------------------------------ sending
\* The orders in which a loop can visit the addresses of S
Orders(S) ==
    {f \in [1..Cardinality(S) -> S] : \A i, j \in 1..Cardinality(S) : f[i] = f[j] => i = j}

\* A loop "for addr in S { try!(send_msg(addr, msg)) }": the addresses
\* send_msg was called for, in order, and whether the last call failed (the
\* loop returns at the first SocketError).
SendLoop(S) ==
    {[att |-> o, fail |-> FALSE] : o \in Orders(S)}
      \cup {[att |-> SubSeq(o, 1, k), fail |-> TRUE] : o \in Orders(S), k \in 1..Cardinality(S)}

\* send_msg: the datagrams that left the socket in a run of calls
Sent(self, run, msg) ==
    {Datagram(self, run.att[i], LocalToken, msg) :
        i \in {j \in 1..Len(run.att) : ~(run.fail /\ j = Len(run.att))}}

\* At least one datagram left the socket in a run of calls
SentAny(att, fail) == Len(att) > (IF fail THEN 1 ELSE 0)

\* Datagrams for hosts that are not modelled leave the model
Modelled(a) == IF a \in Nodes THEN pc[a] # "off" ELSE FALSE
Routed(ds) == {d \in ds : Modelled(d.dst)}
\* The datagrams in flight after ds is sent with q in flight: what exceeds
\* MaxNet is lost
Deliver(q, ds) ==
    LET new == Routed(ds) \ q
        room == MaxNet - Cardinality(q)
    IN  IF Cardinality(new) <= room THEN {q \cup new}
        ELSE {q \cup s : s \in {x \in SUBSET new : Cardinality(x) = room}}

\* What a handler did: the tables it leaves, its return value, the addresses
\* send_msg was called for (att) and whether the last call failed, the message
\* sent, the device write, the address table.insert replaced (prev), the
\* deadline the sender of a message had (old) and the entries deleted from
\* the peer list and the MAC table (del, delmac).
Result(pl, mt, ret, run, out, tap) ==
    [pl |-> pl, mt |-> mt, ret |-> ret, att |-> run.att, fail |-> run.fail,
     out |-> out, tap |-> tap, prev |-> None, old |-> -1, del |-> {}, delmac |-> {}]

NoRun == [att |-> <<>>, fail |-> FALSE]
\* a loop that sent nothing reported as an error
RetOf_strict(run) == IF run.fail \/ run.att = <<>> THEN "SocketError" ELSE "Ok"

\* what a run of try!(send_msg) calls returns
RetOf(run) == IF run.fail THEN "SocketError" ELSE "Ok"

\* ------------------------------------------------------------------ EthCloud
update_freq == PeerTimeout \div 2

\* connect: one send_msg of GetPeers
connect(addr) == SendLoop({addr})

\* housekeep: the outcomes, with the new next_peerlist
housekeep(pl, mt, npl, t) ==
    LET pl1 == PeerList_timeout(pl, t)
        mt1 == MacTable_timeout(mt, t)
    IN  IF npl <= t
        THEN {[res |-> [Result(pl1, mt1, RetOf(run), run, PeersMsg(PeerList_as_vec(pl1)), "none")
                            EXCEPT !.del = DOMAIN pl \ DOMAIN pl1, !.delmac = DOMAIN mt \ DOMAIN mt1],
               npl |-> IF run.fail THEN npl ELSE t + update_freq] :
                    run \in SendLoop(PeerList_as_vec(pl1))}
        ELSE {[res |-> [Result(pl1, mt1, "Ok", NoRun, NoMsg, "none")
                            EXCEPT !.del = DOMAIN pl \ DOMAIN pl1, !.delmac = DOMAIN mt \ DOMAIN mt1],
               npl |-> npl]}

\* handle_ethernet_frame learning the source of the frame it forwards
handle_ethernet_frame_learning(pl, mt, frame) ==
    LET addr == MacTable_lookup(mt, frame.dst, frame.vlan)
        mt1 == MacTable_learn(mt, frame.src, frame.vlan, "A", 0)
    IN  {Result(pl, mt1, RetOf(run), run, FrameMsg(frame), "none") :
                run \in SendLoop(IF addr # None THEN {addr} ELSE PeerList_as_vec(pl))}

handle_ethernet_frame(pl, mt, frame) ==
    LET addr == MacTable_lookup(mt, frame.dst, frame.vlan)
    IN  IF addr # None
        THEN {Result(pl, mt, RetOf(run), run, FrameMsg(frame), "none") : run \in SendLoop({addr})}
        ELSE {Result(pl, mt, RetOf(run), run, FrameMsg(frame), "none") :
                    run \in SendLoop(PeerList_as_vec(pl))}

\* The deadline of addr in pl, -1 when pl has no entry for it
DeadlineOf(pl, addr) == IF PeerList_contains(pl, addr) THEN pl[addr] ELSE -1

\* the sender added and the source learned before the device write
on_Frame_add_first(pl, mt, peer, frame, t) ==
    {[Result(PeerList_add(pl, peer, t),
             MacTable_learn(mt, frame.src, frame.vlan, peer, t),
             ret, NoRun, NoMsg, IF ret = "Ok" THEN "ok" ELSE "err")
        EXCEPT !.prev = MacTable_lookup(mt, frame.src, frame.vlan)] : ret \in {"Ok", "TapdevError"}}

\* Message::Frame(frame): tapdev.write fails, or succeeds and the sender is
\* added and the source learned
on_Frame(pl, mt, peer, frame, t) ==
    {Result(pl, mt, "TapdevError", NoRun, NoMsg, "err"),
     [Result(PeerList_add(pl, peer, t),
             MacTable_learn(mt, frame.src, frame.vlan, peer, t),
             "Ok", NoRun, NoMsg, "ok")
        EXCEPT !.prev = MacTable_lookup(mt, frame.src, frame.vlan)]}

\* Peers that adds the addresses it connects to
on_Peers_admit(pl, mt, peer, list, t) ==
    LET pl1 == PeerList_add(pl, peer, t)
        new == {p \in list : ~PeerList_contains(pl1, p)}
        pl2 == [a \in DOMAIN pl1 \cup new |-> IF a \in new THEN t + PeerTimeout ELSE pl1[a]]
    IN  {Result(pl2, mt, RetOf(run), run, GetPeersMsg, "none") : run \in SendLoop(new)}

\* Message::Peers(peers)
on_Peers(pl, mt, peer, list, t) ==
    LET pl1 == PeerList_add(pl, peer, t)
    IN  {Result(pl1, mt, RetOf(run), run, GetPeersMsg, "none") :
            run \in SendLoop({p \in list : ~PeerList_contains(pl1, p)})}

\* Message::GetPeers
on_GetPeers(pl, mt, peer, t) ==
    LET pl1 == PeerList_add(pl, peer, t)
    IN  {Result(pl1, mt, RetOf(run), run, PeersMsg(PeerList_as_vec(pl1)), "none") :
            run \in SendLoop({peer})}

\* Close that also deletes the MAC table entries of the peer
on_Close_purge(pl, mt, peer) ==
    {[Result(PeerList_remove(pl, peer),
             [k \in {x \in DOMAIN mt : mt[x].address # peer} |-> mt[k]],
             "Ok", NoRun, NoMsg, "none")
        EXCEPT !.del = DOMAIN pl \cap {peer}]}

\* Message::Close
on_Close(pl, mt, peer) ==
    {[Result(PeerList_remove(pl, peer), mt, "Ok", NoRun, NoMsg, "none")
        EXCEPT !.del = DOMAIN pl \cap {peer}]}

\* handle_net_message past the token check; old is the deadline the sender
\* had in the peer list
dispatch(pl, mt, peer, msg, t) ==
    LET rs == CASE msg.kind = "Frame" -> on_Frame(pl, mt, peer, msg.frame, t)
                [] msg.kind = "Peers" -> on_Peers(pl, mt, peer, msg.list, t)
                [] msg.kind = "GetPeers" -> on_GetPeers(pl, mt, peer, t)
                [] msg.kind = "Close" -> on_Close(pl, mt, peer)
    IN  {[r EXCEPT !.old = DeadlineOf(pl, peer)] : r \in rs}

\* handle_net_message without its token check
handle_net_message_any_token(pl, mt, peer, token, msg, t) ==
    dispatch(pl, mt, peer, msg, t)

handle_net_message(pl, mt, peer, token, msg, t) ==
    IF token # LocalToken
    THEN {Result(pl, mt, "WrongToken", NoRun, NoMsg, "none")}
    ELSE dispatch(pl, mt, peer, msg, t)

\* ------------------------------------------------------------- observation
Obs(op, n, peer, token, msg, frame, r) ==
    [op |-> op, node |-> n, peer |-> peer, token |-> token, msg |-> msg, frame |-> frame,
     ret |-> r.ret, att |-> r.att, fail |-> r.fail, out |-> r.out, tap |-> r.tap,
     prev |-> r.prev, old |-> r.old, del |-> r.del, delmac |-> r.delmac]

NoResult == Result(Empty, Empty, "-", NoRun, NoMsg, "none")
Quiet == Obs("-", "-", "-", 0, NoMsg, NoFrame, NoResult)

\* ------------------------------------------------------------------ actions
InitWith(running, env) ==
    /\ now = 0
    /\ peers = [n \in Nodes |-> PeerList_new]
    /\ mactable = [n \in Nodes |-> MacTable_new]
    /\ next_peerlist = [n \in Nodes |-> 0]
    /\ last_housekeep = [n \in Nodes |-> 0]
    /\ pc = [n \in Nodes |-> IF n \in running THEN "start" ELSE "off"]
    /\ events = [n \in Nodes |-> <<>>]
    /\ net = {}
    /\ connected = {}
    /\ budget = env
    /\ gossiped = [n \in Nodes |-> -1]
    /\ last = Quiet

\* One node, every other address is a host of the environment
Init == InitWith({"A"}, MaxEnv)

\* Two nodes and no other host
InitCloud == InitWith(Nodes, 0)

\* main calls connect(addr) for a configured peer, before run()
Connect(n, addr) ==
    /\ pc[n] = "start"
    /\ <<n, addr>> \notin connected
    /\ addr # n
    /\ Modelled(addr)
    /\ \E run \in connect(addr) :
         /\ net' \in Deliver(net, Sent(n, run, GetPeersMsg))
         /\ last' = Obs("connect", n, addr, LocalToken, NoMsg, NoFrame,
                        Result(Empty, Empty, RetOf(run), run, GetPeersMsg, "none"))
    /\ connected' = connected \cup {<<n, addr>>}
    /\ UNCHANGED <<now, peers, mactable, next_peerlist, last_housekeep, pc, events,
                   budget, gossiped>>

\* run() up to the loop
Run(n) ==
    /\ pc[n] = "start"
    /\ pc' = [pc EXCEPT ![n] = "wait"]
    /\ last' = Quiet
    /\ UNCHANGED <<now, peers, mactable, next_peerlist, last_housekeep, events, net,
                   connected, budget, gossiped>>

SocketReady(n) == \E d \in net : d.dst = n

\* gossiped at time t: a gossip that is update_freq old is no longer recorded
Forget(g, t) == [n \in Nodes |-> IF g[n] >= 0 /\ t - g[n] >= update_freq THEN -1 ELSE g[n]]

\* epoll::wait returns the ready sources, in some order, before its timeout
\* (time passes only while a node is blocked here).  The socket is ready
\* when a datagram is in flight to n or one arrives from a host that is not
\* modelled; the device is ready when the local host has sent a frame
\* (frames: whether it sends any).
EpollReady(n, frames) ==
    /\ pc[n] = "wait"
    /\ \E dt \in 0..EpollTimeout :
         /\ now + dt <= MaxTime
         /\ now' = now + dt
    /\ \E sock \in BOOLEAN, dev \in frames :
         /\ sock \/ dev
         /\ SocketReady(n) => sock
         /\ sock => SocketReady(n) \/ budget > 0
         /\ \E ev \in Orders((IF sock THEN {0} ELSE {}) \cup (IF dev THEN {1} ELSE {})) :
                events' = [events EXCEPT ![n] = ev]
         /\ budget' = IF sock /\ ~SocketReady(n) THEN budget - 1 ELSE budget
    /\ pc' = [pc EXCEPT ![n] = "events"]
    /\ last' = Quiet
    /\ gossiped' = Forget(gossiped, now')
    /\ UNCHANGED <<peers, mactable, next_peerlist, last_housekeep, net, connected>>

\* epoll::wait returns 0 after its timeout
EpollTimedOut(n) ==
    /\ pc[n] = "wait"
    /\ ~SocketReady(n)
    /\ now + EpollTimeout <= MaxTime
    /\ now' = now + EpollTimeout
    /\ events' = [events EXCEPT ![n] = <<>>]
    /\ pc' = [pc EXCEPT ![n] = "housekeep"]
    /\ last' = Quiet
    /\ gossiped' = Forget(gossiped, now')
    /\ UNCHANGED <<peers, mactable, next_peerlist, last_housekeep, net,
                   connected, budget>>

\* epoll::wait returns 0 after its timeout when the clock is at MaxTime, the
\* last instant the model counts
EpollTimedOutLate(n) ==
    /\ pc[n] = "wait"
    /\ ~SocketReady(n)
    /\ now + EpollTimeout > MaxTime
    /\ events' = [events EXCEPT ![n] = <<>>]
    /\ pc' = [pc EXCEPT ![n] = "housekeep"]
    /\ last' = Quiet
    /\ UNCHANGED <<now, peers, mactable, next_peerlist, last_housekeep, net,
                   connected, budget, gossiped>>

\* epoll::wait fails, or recv_from or tapdev.read fails: panic
Abort(n) ==
    /\ pc[n] \in {"wait", "events"}
    /\ pc' = [pc EXCEPT ![n] = "aborted"]
    /\ last' = Quiet
    /\ UNCHANGED <<now, peers, mactable, next_peerlist, last_housekeep, events, net,
                   connected, budget, gossiped>>

\* the loop stopping at a handler's error
AfterEvent_fatal(n) ==
    /\ events' = [events EXCEPT ![n] = Tail(@)]
    /\ pc' = [pc EXCEPT ![n] = IF last'.ret # "Ok" THEN "aborted"
                                ELSE IF Tail(events[n]) = <<>> THEN "housekeep" ELSE "events"]

\* the loop leaving for the housekeeping after the first ready source
AfterEvent_skip(n) ==
    /\ events' = [events EXCEPT ![n] = Tail(@)]
    /\ pc' = [pc EXCEPT ![n] = "housekeep"]

\* the end of one round of "for i in 0..count"
AfterEvent(n) ==
    /\ events' = [events EXCEPT ![n] = Tail(@)]
    /\ pc' = [pc EXCEPT ![n] = IF Tail(events[n]) = <<>> THEN "housekeep" ELSE "events"]

\* What a host that is not modelled can send to n.  Its Peers lists do not
\* name n itself: what a list that does leads to is explored with two nodes,
\* in SpecCloud, where the lists are the ones the code builds.
EnvDatagrams(n) ==
    {Datagram(src, n, LocalToken, msg) :
        src \in {a \in Addrs : ~Modelled(a)},
        msg \in {m \in Messages : n \notin m.list} \cup {Garbage}}
      \cup {Datagram(src, n, token, msg) :
        src \in {a \in Addrs : ~Modelled(a)}, token \in Tokens \ {LocalToken}, msg \in WrongTokenMessages}

\* recv_from: a datagram in flight to n, or else one from the environment
Received(n) == IF SocketReady(n) THEN {x \in net : x.dst = n} ELSE EnvDatagrams(n)

\* What any host that is not modelled can send to n: also Peers lists that
\* name n, as the reply to n's own GetPeers does
AnyEnvDatagrams(n) ==
    EnvDatagrams(n) \cup
        {Datagram(src, n, LocalToken, msg) :
            src \in {a \in Addrs : ~Modelled(a)}, msg \in {m \in Messages : n \in m.list}}

\* recv_from when the other hosts may name n in their lists
ReceivedAny(n) == IF SocketReady(n) THEN {x \in net : x.dst = n} ELSE AnyEnvDatagrams(n)

\* events[i].data = 0: recv_from gives one of the datagrams ds, then decode
\* and handle_net_message
SocketEventOf(n, ds) ==
    /\ pc[n] = "events"
    /\ events[n] # <<>>
    /\ Head(events[n]) = 0
    /\ \E d \in ds :
         IF decode(d) = "ParseError"
         THEN /\ net' = net \ {d}
              /\ last' = Obs("net", n, d.src, d.token, d.msg, NoFrame,
                             Result(Empty, Empty, "ParseError", NoRun, NoMsg, "none"))
              /\ UNCHANGED <<peers, mactable>>
         ELSE \E r \in handle_net_message(peers[n], mactable[n], d.src, d.token, d.msg, now) :
                LET out == Sent(n, [att |-> r.att, fail |-> r.fail], r.out)
                IN  /\ net' \in Deliver(net \ {d}, out)
                    /\ peers' = [peers EXCEPT ![n] = r.pl]
                    /\ mactable' = [mactable EXCEPT ![n] = r.mt]
                    /\ last' = Obs("net", n, d.src, d.token, d.msg, NoFrame, r)
    /\ AfterEvent(n)
    /\ UNCHANGED <<now, next_peerlist, last_housekeep, connected, budget, gossiped>>

SocketEvent(n) == SocketEventOf(n, Received(n))

SocketEventAny(n) == SocketEventOf(n, ReceivedAny(n))

\* events[i].data = 1: tapdev.read, ethernet::decode, handle_ethernet_frame
DeviceEvent(n) ==
    /\ pc[n] = "events"
    /\ events[n] # <<>>
    /\ Head(events[n]) = 1
    /\ \E f \in Frames \cup {NoFrame} :
         IF f = NoFrame
         THEN /\ last' = Obs("dev", n, "-", 0, NoMsg, f,
                             Result(Empty, Empty, "ParseError", NoRun, NoMsg, "none"))
              /\ UNCHANGED <<peers, mactable, net>>
         ELSE \E r \in handle_ethernet_frame(peers[n], mactable[n], f) :
                LET out == Sent(n, [att |-> r.att, fail |-> r.fail], r.out)
                IN  /\ net' \in Deliver(net, out)
                    /\ peers' = [peers EXCEPT ![n] = r.pl]
                    /\ mactable' = [mactable EXCEPT ![n] = r.mt]
                    /\ last' = Obs("dev", n, "-", 0, NoMsg, f, r)
    /\ AfterEvent(n)
    /\ UNCHANGED <<now, next_peerlist, last_housekeep, connected, budget, gossiped>>

\* the housekeeping guard of run()
HousekeepDue(n, t) == last_housekeep[n] < t + OneSecond

\* "Do the housekeeping": the end of a loop iteration
Housekeeping(n) ==
    /\ pc[n] = "housekeep"
    /\ IF HousekeepDue(n, now)
       THEN \E h \in housekeep(peers[n], mactable[n], next_peerlist[n], now) :
                LET out == Sent(n, [att |-> h.res.att, fail |-> h.res.fail], h.res.out)
                IN  /\ net' \in Deliver(net, out)
                    /\ peers' = [peers EXCEPT ![n] = h.res.pl]
                    /\ mactable' = [mactable EXCEPT ![n] = h.res.mt]
                    /\ next_peerlist' = [next_peerlist EXCEPT ![n] = h.npl]
                    /\ last_housekeep' = [last_housekeep EXCEPT ![n] = now]
                    /\ gossiped' = [gossiped EXCEPT ![n] = IF SentAny(h.res.att, h.res.fail) THEN now ELSE @]
                    /\ last' = Obs("housekeep", n, "-", 0, NoMsg, NoFrame, h.res)
       ELSE /\ last' = Quiet
            /\ UNCHANGED <<peers, mactable, next_peerlist, last_housekeep, net, gossiped>>
    /\ pc' = [pc EXCEPT ![n] = "wait"]
    /\ UNCHANGED <<now, events, connected, budget>>

Next ==
    \/ \E n \in Nodes : Run(n)
    \/ \E n \in Nodes : EpollReady(n, BOOLEAN)
    \/ \E n \in Nodes : EpollTimedOut(n)
    \/ \E n \in Nodes : Abort(n)
    \/ \E n \in Nodes : SocketEvent(n)
    \/ \E n \in Nodes : DeviceEvent(n)
    \/ \E n \in Nodes : Housekeeping(n)

Spec == Init /\ [][Next]_vars

\* One node, the other hosts send any message; the local host is silent
NextOpen ==
    \/ \E n \in Nodes : Run(n)
    \/ \E n \in Nodes : EpollReady(n, {FALSE})
    \/ \E n \in Nodes : EpollTimedOut(n)
    \/ \E n \in Nodes : SocketEventAny(n)
    \/ \E n \in Nodes : Housekeeping(n)

SpecOpen == Init /\ [][NextOpen]_vars

\* One node whose reads and waits never fail and whose local host is silent.
\* The loop is scheduled: every step of it that can be taken is taken, and
\* epoll::wait returns, with an event or after its timeout.  Time advances:
\* the clock moves on again and again until MaxTime.
NextLive ==
    \/ \E n \in Nodes : Run(n)
    \/ \E n \in Nodes : EpollReady(n, {FALSE})
    \/ \E n \in Nodes : EpollTimedOut(n)
    \/ \E n \in Nodes : EpollTimedOutLate(n)
    \/ \E n \in Nodes : SocketEvent(n)
    \/ \E n \in Nodes : Housekeeping(n)

EpollReturns(n) == EpollReady(n, {FALSE}) \/ EpollTimedOut(n) \/ EpollTimedOutLate(n)

TimeAdvances == (\E n \in Nodes : EpollReady(n, {FALSE}) \/ EpollTimedOut(n)) /\ now' > now

\* The other hosts send one datagram less than in Init
InitLive == InitWith({"A"}, MaxEnv - 1)

SpecLive ==
    /\ InitLive
    /\ [][NextLive]_vars
    /\ \A n \in Nodes :
         /\ WF_vars(Run(n))
         /\ WF_vars(EpollReturns(n))
         /\ WF_vars(SocketEvent(n))
         /\ WF_vars(Housekeeping(n))
    /\ SF_vars(TimeAdvances)

\* Two nodes that discover each other and gossip; the local hosts are silent
NextCloud ==
    \/ \E n \in Nodes, addr \in Addrs : Connect(n, addr)
    \/ \E n \in Nodes : Run(n)
    \/ \E n \in Nodes : EpollReady(n, {FALSE})
    \/ \E n \in Nodes : EpollTimedOut(n)
    \/ \E n \in Nodes : SocketEvent(n)
    \/ \E n \in Nodes : Housekeeping(n)

SpecCloud == InitCloud /\ [][NextCloud]_vars

\* ------------------------------------------------------------------ steps
\* The step is handle_net_message of node n (the datagram decoded)
NetStep(n) ==
    /\ pc[n] = "events"
    /\ last'.op = "net"
    /\ last'.node = n
    /\ last'.ret # "ParseError"

\* The step is handle_net_message of n for a valid-token message that adds its sender
AddStep(n) ==
    /\ NetStep(n)
    /\ last'.token = LocalToken
    /\ \/ last'.msg.kind \in {"Peers", "GetPeers"}
       \/ last'.msg.kind = "Frame" /\ last'.tap = "ok"

\* The step is handle_ethernet_frame of node n (the frame decoded)
DevStep(n) ==
    /\ pc[n] = "events"
    /\ last'.op = "dev"
    /\ last'.node = n
    /\ last'.ret # "ParseError"

\* The step is housekeep of node n
HkStep(n) ==
    /\ pc[n] = "housekeep"
    /\ last'.op = "housekeep"
    /\ last'.node = n

Targets(att) == {att[i] : i \in 1..Len(att)}

\* ------------------------------------------------------------------ claims

\* C1: a datagram whose token differs from the local token, whatever its
\* message, makes handle_net_message return WrongToken and leaves the peer
\* list and the MAC table as they were, with nothing written to the device
\* and no datagram sent.
C1_WrongTokenRejected ==
    [][\A n \in Nodes :
         (NetStep(n) /\ last'.token # LocalToken) =>
            /\ last'.ret = "WrongToken"
            /\ peers' = peers
            /\ mactable' = mactable
            /\ last'.tap = "none"
            /\ last'.att = <<>>
            /\ net' \subseteq net]_vars

\* A Close with a wrong token from a peer of the list was rejected
C1_Witness ==
    /\ last.op = "net"
    /\ last.token # LocalToken
    /\ last.ret = "WrongToken"
    /\ last.msg.kind = "Close"
    /\ last.peer \in DOMAIN peers[last.node]

\* C2: a node's own address is never in its own peer list.
C2_NoSelfPeer == \A n \in Nodes : ~PeerList_contains(peers[n], n)

\* C3: after A's connect(B), once B has handled the GetPeers, A has handled
\* the reply, no datagram is in flight and no entry has timed out, A's peer
\* list is exactly {B} and B's is exactly {A}.
C3_Discovery ==
    (/\ connected = {<<"A", "B">>}
     /\ pc["A"] # "start" /\ pc["B"] # "start"
     /\ PeerList_contains(peers["A"], "B")
     /\ PeerList_contains(peers["B"], "A")
     /\ net = {}
     /\ \A n \in Nodes : \A a \in DOMAIN peers[n] : peers[n][a] >= now)
    => (DOMAIN peers["A"] = {"B"} /\ DOMAIN peers["B"] = {"A"})

\* The MAC table key of a frame's destination, and of its source
DstKey(f) == [mac |-> f.dst, vlan |-> f.vlan]
SrcKey(f) == [mac |-> f.src, vlan |-> f.vlan]

C5_NoPrematureEviction ==
    [][\A n \in Nodes :
         /\ AddStep(n) =>
                /\ PeerList_contains(peers'[n], last'.peer)
                /\ peers'[n][last'.peer] = now + PeerTimeout
         /\ \A a \in DOMAIN peers[n] :
                /\ ~PeerList_contains(peers'[n], a) =>
                      \/ /\ NetStep(n) /\ last'.token = LocalToken
                         /\ last'.msg.kind = "Close" /\ last'.peer = a
                      \/ HkStep(n) /\ now >= peers[n][a]
                /\ (PeerList_contains(peers'[n], a) /\ peers'[n][a] # peers[n][a]) =>
                      AddStep(n) /\ last'.peer = a]_vars

\* housekeep ran before the deadline of a peer added earlier, and kept it
C5_Witness ==
    /\ last.op = "housekeep"
    /\ \E a \in DOMAIN peers[last.node] :
         /\ peers[last.node][a] > now
         /\ peers[last.node][a] < now + PeerTimeout

\* C6: a valid-token Frame from peer a written to the device maps
\* (frame.src, frame.vlan) to a with the deadline now + mac_timeout, also
\* when the key was mapped to another peer, and removes no peer; a mapping
\* changes only by such a Frame for its key, or is deleted by a housekeep at
\* a time >= its deadline.
C6_MostRecentSource ==
    [][\A n \in Nodes :
         /\ (AddStep(n) /\ last'.msg.kind = "Frame") =>
                /\ MacTable_lookup(mactable'[n], last'.msg.frame.src, last'.msg.frame.vlan) = last'.peer
                /\ mactable'[n][SrcKey(last'.msg.frame)].timeout = now + MacTimeout
                /\ DOMAIN peers[n] \subseteq DOMAIN peers'[n]
         /\ \A k \in DOMAIN mactable[n] :
                (k \notin DOMAIN mactable'[n] \/ mactable'[n][k] # mactable[n][k]) =>
                      \/ /\ AddStep(n) /\ last'.msg.kind = "Frame"
                         /\ SrcKey(last'.msg.frame) = k
                      \/ /\ HkStep(n) /\ now >= mactable[n][k].timeout
                         /\ k \notin DOMAIN mactable'[n]]_vars

\* A key mapped to one peer was relearned from another, and the first is
\* still in the peer list
C6_Witness ==
    /\ last.op = "net"
    /\ last.msg.kind = "Frame"
    /\ last.tap = "ok"
    /\ last.prev \notin {None, last.peer}
    /\ PeerList_contains(peers[last.node], last.prev)
    /\ MacTable_lookup(mactable[last.node], last.msg.frame.src, last.msg.frame.vlan) = last.peer

\* C7: two housekeep calls that each send at least one Peers datagram are at
\* least peer_timeout / 2 apart.
C7_GossipInterval ==
    [][\A n \in Nodes :
         (HkStep(n) /\ SentAny(last'.att, last'.fail) /\ gossiped[n] >= 0) =>
            now - gossiped[n] >= update_freq]_vars

\* C8: a flood calls send_msg for every address of the peer list, also when
\* a call fails.
C8_FloodContinues ==
    [][\A n \in Nodes :
         (DevStep(n) /\ DstKey(last'.frame) \notin DOMAIN mactable[n]) =>
            Targets(last'.att) = DOMAIN peers[n]]_vars

\* C9: the iteration runs housekeep exactly when the clock is at least one
\* second past last_housekeep.
C9_HousekeepCadence ==
    [][\A n \in Nodes :
         (pc[n] = "housekeep" /\ pc'[n] = "wait") =>
            (HkStep(n) <=> now >= last_housekeep[n] + OneSecond)]_vars

\* C10: housekeep at time now deletes exactly the peers whose deadline is
\* strictly before now, so none is left with such a deadline, and a flood
\* with an empty peer list sends nothing.
C10_PeerExpiry ==
    [][\A n \in Nodes :
         /\ HkStep(n) =>
                /\ DOMAIN peers'[n] = {a \in DOMAIN peers[n] : peers[n][a] >= now}
                /\ \A a \in DOMAIN peers'[n] : peers'[n][a] = peers[n][a] /\ ~(peers'[n][a] < now')
                /\ last'.del = {a \in DOMAIN peers[n] : peers[n][a] < now}
         /\ (DevStep(n) /\ DstKey(last'.frame) \notin DOMAIN mactable[n] /\ DOMAIN peers[n] = {}) =>
                /\ last'.att = <<>>
                /\ net' = net]_vars

\* housekeep deleted a peer whose deadline had passed and kept one whose
\* deadline is now
C10_Witness ==
    /\ last.op = "housekeep"
    /\ last.del # {}
    /\ \E a \in DOMAIN peers[last.node] : peers[last.node][a] = now

\* C11: a valid-token Close from b leaves b out of the peer list; a flood
\* calls send_msg only for addresses of the peer list and puts datagrams in
\* flight only to them; and an address enters the peer list only when a
\* valid-token Frame (written to the device), Peers or GetPeers from that
\* address is handled.  So no flood sends to b between the Close and the next
\* such message from b.
C11_GracefulClose ==
    [][\A n \in Nodes :
         /\ (NetStep(n) /\ last'.token = LocalToken /\ last'.msg.kind = "Close") =>
                ~PeerList_contains(peers'[n], last'.peer)
         /\ (DevStep(n) /\ DstKey(last'.frame) \notin DOMAIN mactable[n]) =>
                /\ Targets(last'.att) \subseteq DOMAIN peers[n]
                /\ \A d \in net' \ net : d.dst \in DOMAIN peers[n]
         /\ \A a \in Addrs :
                (~PeerList_contains(peers[n], a) /\ PeerList_contains(peers'[n], a)) =>
                      AddStep(n) /\ last'.peer = a]_vars

\* A Close removed a peer of the list and a frame of the device waits to be
\* handled in the same iteration
C11_Witness ==
    /\ last.op = "net"
    /\ last.token = LocalToken
    /\ last.msg.kind = "Close"
    /\ last.del = {last.peer}
    /\ pc[last.node] = "events"
    /\ Head(events[last.node]) = 1

\* C12: after a datagram or a frame whose decoding or handling gave an error
\* the loop goes on with the remaining ready sources and then with the
\* housekeeping; after a housekeep that returned an error last_housekeep is
\* set and the next epoll::wait follows; and the loop is aborted only by a
\* step that is no handler, from the wait or from a read.
C12_ErrorsNotFatal ==
    [][\A n \in Nodes :
         /\ (/\ pc[n] = "events" /\ last'.node = n
             /\ last'.op \in {"net", "dev"} /\ last'.ret # "Ok") =>
                /\ events'[n] = Tail(events[n])
                /\ pc'[n] = IF Tail(events[n]) = <<>> THEN "housekeep" ELSE "events"
         /\ (HkStep(n) /\ last'.ret # "Ok") =>
                /\ pc'[n] = "wait"
                /\ last_housekeep'[n] = now
         /\ (pc[n] # "aborted" /\ pc'[n] = "aborted") =>
                /\ pc[n] \in {"wait", "events"}
                /\ last' = Quiet]_vars

\* A Frame could not be written to the device, and the frame the device has
\* ready is still to be handled
C12_Witness ==
    /\ last.op = "net"
    /\ last.ret = "TapdevError"
    /\ pc[last.node] = "events"
    /\ events[last.node] = <<1>>

\* C13: a valid-token Frame whose device write succeeds adds its sender, with
\* the deadline now + peer_timeout, and maps (frame.src, frame.vlan) to it;
\* one whose device write fails returns TapdevError and leaves the peer list
\* and the MAC table as they were.
C13_LearnAfterWrite ==
    [][\A n \in Nodes :
         (NetStep(n) /\ last'.token = LocalToken /\ last'.msg.kind = "Frame") =>
            IF last'.tap = "ok"
            THEN /\ last'.ret = "Ok"
                 /\ PeerList_contains(peers'[n], last'.peer)
                 /\ peers'[n][last'.peer] = now + PeerTimeout
                 /\ mactable'[n][SrcKey(last'.msg.frame)] = MacTableValue(last'.peer, now + MacTimeout)
            ELSE /\ last'.tap = "err"
                 /\ last'.ret = "TapdevError"
                 /\ peers' = peers
                 /\ mactable' = mactable]_vars

\* The device write failed for a Frame from an address that is not a peer,
\* with a source that is mapped to another peer
C13_Witness ==
    /\ last.op = "net"
    /\ last.msg.kind = "Frame"
    /\ last.ret = "TapdevError"
    /\ ~PeerList_contains(peers[last.node], last.peer)
    /\ MacTable_lookup(mactable[last.node], last.msg.frame.src, last.msg.frame.vlan) \notin {None, last.peer}

\* C14: a valid-token Peers(list) from s adds s and nothing else to the peer
\* list, and send_msg(GetPeers) is called for exactly the addresses of the
\* list that are neither s nor in the peer list; with an empty list nothing
\* is sent.
C14_PeersConnects ==
    [][\A n \in Nodes :
         (NetStep(n) /\ last'.token = LocalToken /\ last'.msg.kind = "Peers") =>
            LET known == DOMAIN peers[n] \cup {last'.peer}
            IN  /\ DOMAIN peers'[n] = known
                /\ peers'[n][last'.peer] = now + PeerTimeout
                /\ Targets(last'.att) = last'.msg.list \ known
                /\ last'.msg.list = {} => (last'.att = <<>> /\ net' \subseteq net)]_vars

\* C15: handle_ethernet_frame leaves the peer list and the MAC table as they
\* were, on a hit and on a miss, whether the sends succeed or fail; a MAC
\* table entry is created or overwritten only by a valid-token Frame from the
\* socket, for the key of its source.
C15_NoEgressLearning ==
    [][\A n \in Nodes :
         /\ DevStep(n) =>
                /\ peers' = peers
                /\ mactable' = mactable
         /\ \A k \in DOMAIN mactable'[n] :
                (k \notin DOMAIN mactable[n] \/ mactable'[n][k] # mactable[n][k]) =>
                      /\ AddStep(n) /\ last'.msg.kind = "Frame"
                      /\ SrcKey(last'.msg.frame) = k]_vars

\* A frame of the local host with source bb was sent to the one peer its
\* destination maps to, and the MAC table has no entry for its source
C15_Witness ==
    /\ last.op = "dev"
    /\ last.ret = "Ok"
    /\ last.frame.src = "bb"
    /\ DstKey(last.frame) \in DOMAIN mactable[last.node]
    /\ last.att = <<mactable[last.node][DstKey(last.frame)].address>>
    /\ SrcKey(last.frame) \notin DOMAIN mactable[last.node]

\* C16: with an empty peer list a frame of the device that misses the MAC
\* table calls send_msg for no address, sends nothing and returns Ok; a
\* housekeep whose gossip is due and whose peer list is empty after the
\* expiry does the same, and advances next_peerlist.
C16_EmptyBroadcast ==
    [][\A n \in Nodes :
         /\ (/\ DevStep(n) /\ DstKey(last'.frame) \notin DOMAIN mactable[n]
             /\ DOMAIN peers[n] = {}) =>
                /\ last'.att = <<>>
                /\ last'.ret = "Ok"
                /\ net' = net
         /\ (HkStep(n) /\ next_peerlist[n] <= now /\ DOMAIN peers'[n] = {}) =>
                /\ last'.att = <<>>
                /\ last'.ret = "Ok"
                /\ net' = net
                /\ next_peerlist'[n] = now + update_freq]_vars

\* A gossip round ran right after the last peer had expired
C16_Witness ==
    /\ last.op = "housekeep"
    /\ last.ret = "Ok"
    /\ last.att = <<>>
    /\ last.del # {}
    /\ DOMAIN peers[last.node] = {}
    /\ next_peerlist[last.node] = now + update_freq

\* The last handler of node n was handle_net_message for a decoded
\* valid-token message of one of the kinds
LastFrom(n, kinds) ==
    /\ last.op = "net"
    /\ last.node = n
    /\ last.token = LocalToken
    /\ last.ret # "ParseError"
    /\ last.msg.kind \in kinds

\* C17 as stated, for the messages that announce their sender (a Close is
\* C11's subject): the housekeeping of an iteration runs with no ready source
\* left, and after a valid-token Frame, Peers or GetPeers from p was handled
\* in the iteration, p has the deadline now + peer_timeout and the
\* housekeeping keeps p.
C17_MessageRefreshes ==
    [][\A n \in Nodes :
         /\ pc'[n] = "housekeep" => events'[n] = <<>>
         /\ (HkStep(n) /\ LastFrom(n, {"Frame", "Peers", "GetPeers"})) =>
                /\ PeerList_contains(peers[n], last.peer)
                /\ peers[n][last.peer] = now + PeerTimeout
                /\ PeerList_contains(peers'[n], last.peer)]_vars

\* C17 amended: the housekeeping of an iteration runs with no ready source
\* left; a valid-token Peers or GetPeers from p, or a valid-token Frame from
\* p that was written to the device, sets p's deadline to now + peer_timeout,
\* whatever it was; the frame of the device handled after it leaves the peer
\* list alone; and the housekeeping keeps every peer whose deadline is not
\* before now, so it keeps p.  A Frame whose device write failed refreshes
\* nothing.
C17_DrainThenHousekeep ==
    [][\A n \in Nodes :
         /\ pc'[n] = "housekeep" => events'[n] = <<>>
         /\ AddStep(n) => peers'[n][last'.peer] = now + PeerTimeout
         /\ DevStep(n) => peers'[n] = peers[n]
         /\ HkStep(n) =>
                \A a \in DOMAIN peers[n] :
                    peers[n][a] >= now => (PeerList_contains(peers'[n], a) /\ peers'[n][a] = peers[n][a])
         /\ (/\ HkStep(n) /\ LastFrom(n, {"Frame", "Peers", "GetPeers"})
             /\ last.tap # "err") =>
                /\ peers'[n][last.peer] = now + PeerTimeout
         /\ (NetStep(n) /\ last'.tap = "err") => peers' = peers]_vars

\* A message from a peer whose deadline had passed was handled, the peer has
\* its new deadline and the housekeeping of the iteration comes next
C17_Witness ==
    /\ LastFrom(last.node, {"Frame", "Peers", "GetPeers"})
    /\ last.tap # "err"
    /\ last.old >= 0
    /\ last.old < now
    /\ pc[last.node] = "housekeep"
    /\ peers[last.node][last.peer] = now + PeerTimeout

\* C18: housekeep runs again and again on every node that runs, also when no
\* source is ever ready, and from some moment on no peer entry and no MAC
\* table entry has a deadline before MaxTime: each such entry is in the end
\* deleted or given a later deadline.
C18_HousekeepingProgress ==
    /\ \A n \in Nodes :
         []<>(pc[n] = "off" \/ (last.op = "housekeep" /\ last.node = n))
    /\ <>[](\A n \in Nodes :
              /\ \A a \in DOMAIN peers[n] : peers[n][a] >= MaxTime
              /\ \A k \in DOMAIN mactable[n] : mactable[n][k].timeout >= MaxTime)

\* A housekeep deleted a MAC table entry that nothing had refreshed, once
\* the other hosts had gone silent
C18_Witness ==
    /\ last.op = "housekeep"
    /\ last.delmac # {}
    /\ budget = 0

\* C19: a valid-token Close from b deletes b's entry from the peer list and
\* changes nothing else: the other entries and the MAC table stay and nothing
\* is sent.  housekeep deletes a MAC table entry by its own deadline only,
\* whatever the peer list holds, and a frame of the device whose destination
\* has an entry goes to the mapped address, in the peer list or not.
C19_CloseOnlyPeerEntry ==
    [][\A n \in Nodes :
         /\ (NetStep(n) /\ last'.token = LocalToken /\ last'.msg.kind = "Close") =>
                /\ DOMAIN peers'[n] = DOMAIN peers[n] \ {last'.peer}
                /\ \A a \in DOMAIN peers'[n] : peers'[n][a] = peers[n][a]
                /\ mactable' = mactable
                /\ last'.att = <<>>
                /\ last'.tap = "none"
                /\ net' \subseteq net
         /\ HkStep(n) =>
                /\ DOMAIN mactable'[n] = {k \in DOMAIN mactable[n] : mactable[n][k].timeout >= now}
                /\ \A k \in DOMAIN mactable'[n] : mactable'[n][k] = mactable[n][k]
         /\ (DevStep(n) /\ DstKey(last'.frame) \in DOMAIN mactable[n]) =>
                last'.att = <<mactable[n][DstKey(last'.frame)].address>>]_vars

\* A frame of the device was sent to the address its destination maps to,
\* by an entry whose deadline has not passed, after that address had left
\* the peer list
C19_Witness ==
    /\ last.op = "dev"
    /\ last.ret = "Ok"
    /\ DstKey(last.frame) \in DOMAIN mactable[last.node]
    /\ mactable[last.node][DstKey(last.frame)].timeout >= now
    /\ last.att = <<mactable[last.node][DstKey(last.frame)].address>>
    /\ ~PeerList_contains(peers[last.node], mactable[last.node][DstKey(last.frame)].address)

\* C20: the peer lists start empty and an address enters a peer list only in
\* the step that handles a valid-token Frame written to the device, Peers or
\* GetPeers datagram whose source is that address; handling a Peers list adds
\* none of the listed addresses but its sender, whether or not connect() is
\* called for them.
C20_AdmissionBySource ==
    /\ \A n \in Nodes : DOMAIN peers[n] = {}
    /\ [][\A n \in Nodes :
            /\ \A a \in Addrs :
                   (~PeerList_contains(peers[n], a) /\ PeerList_contains(peers'[n], a)) =>
                         /\ AddStep(n)
                         /\ last'.peer = a
            /\ (NetStep(n) /\ last'.msg.kind = "Peers") =>
                   DOMAIN peers'[n] \subseteq DOMAIN peers[n] \cup {last'.peer}]_vars

\* A Peers list named an address that was not a peer, GetPeers was sent to
\* it, and it is not in the peer list
C20_Witness ==
    /\ last.op = "net"
    /\ last.msg.kind = "Peers"
    /\ last.ret = "Ok"
    /\ \E a \in Targets(last.att) :
         /\ a \in last.msg.list
         /\ ~PeerList_contains(peers[last.node], a)

====
